---- MODULE Spec2Model ----
(***************************************************************************)
(* Gayatri Mantra Lekhan: the typing-accuracy scorer, the suggestion       *)
(* engine and the session controller of the MantraTrainer component.       *)
(*                                                                         *)
(* A JavaScript string is modelled as a sequence of UTF-16 code units.  An *)
(* ASCII code unit is the one-character string holding it; a code unit     *)
(* outside ASCII is written "U+XXXX" (so "U+0950" is the glyph OM, and     *)
(* "U+0964" / "U+0965" are the danda and the double danda).                *)
(***************************************************************************)
EXTENDS Integers, Sequences, FiniteSets, TLC

(***************************************************************************)
(* Character classes of the JavaScript regular expressions in the source.  *)
(***************************************************************************)

\* \s, and the characters String.prototype.trim removes.
WhiteSpace == {" ", "\t", "\n"}

\* \w of a regular expression without the u flag: [A-Za-z0-9_].
WordChars ==
    {"a", "b", "c", "d", "e", "f", "g", "h", "i", "j", "k", "l", "m",
     "n", "o", "p", "q", "r", "s", "t", "u", "v", "w", "x", "y", "z",
     "A", "B", "C", "D", "E", "F", "G", "H", "I", "J", "K", "L", "M",
     "N", "O", "P", "Q", "R", "S", "T", "U", "V", "W", "X", "Y", "Z",
     "0", "1", "2", "3", "4", "5", "6", "7", "8", "9", "_"}

\* The character class [U+0964 U+0965] stripped by checkAccuracy.
Dandas == {"U+0964", "U+0965"}

UpperCase ==
    <<"A", "B", "C", "D", "E", "F", "G", "H", "I", "J", "K", "L", "M",
      "N", "O", "P", "Q", "R", "S", "T", "U", "V", "W", "X", "Y", "Z">>

LowerCase ==
    <<"a", "b", "c", "d", "e", "f", "g", "h", "i", "j", "k", "l", "m",
      "n", "o", "p", "q", "r", "s", "t", "u", "v", "w", "x", "y", "z">>

Min(a, b) == IF a <= b THEN a ELSE b

Max(a, b) == IF a >= b THEN a ELSE b

(***************************************************************************)
(* String primitives, as String.prototype defines them.                    *)
(***************************************************************************)

UpperSet == {UpperCase[k] : k \in 1..Len(UpperCase)}

LowerOf == [c \in UpperSet |->
              LowerCase[CHOOSE k \in 1..Len(UpperCase) : UpperCase[k] = c]]

\* String.prototype.toLowerCase; Devanagari code units have no case.
toLowerCase(s) ==
    [i \in 1..Len(s) |-> IF s[i] \in UpperSet THEN LowerOf[s[i]] ELSE s[i]]

\* String.prototype.trim: the text from the first to the last character
\* that is not white space.
trim(s) ==
    IF \A i \in 1..Len(s) : s[i] \in WhiteSpace THEN <<>>
    ELSE SubSeq(s,
            CHOOSE i \in 1..Len(s) :
                s[i] \notin WhiteSpace /\ \A j \in 1..(i - 1) : s[j] \in WhiteSpace,
            CHOOSE i \in 1..Len(s) :
                s[i] \notin WhiteSpace /\ \A j \in (i + 1)..Len(s) : s[j] \in WhiteSpace)

\* s.replace(/[U+0964 U+0965]/g, '').
stripDandas(s) == SelectSeq(s, LAMBDA c : c \notin Dandas)

\* A faulty stripWhiteSpace: the white space is kept, so the tolerant match
\* counts the spaces between the words.
keepWhiteSpace(s) == s

\* s.replace(/\s/g, '').
stripWhiteSpace(s) == SelectSeq(s, LAMBDA c : c \notin WhiteSpace)

\* String.prototype.split with a one-character separator: always returns at
\* least one piece, and the empty string splits into one empty piece.
RECURSIVE split(_, _)
split(s, sep) ==
    LET at == {i \in 1..Len(s) : s[i] = sep}
    IN  IF at = {} THEN <<s>>
        ELSE LET i == CHOOSE k \in at : \A j \in at : k <= j
             IN  <<SubSeq(s, 1, i - 1)>> \o split(SubSeq(s, i + 1, Len(s)), sep)

\* Array.prototype.join with a one-character separator.
RECURSIVE join(_, _)
join(words, sep) ==
    IF Len(words) = 0 THEN <<>>
    ELSE IF Len(words) = 1 THEN words[1]
    ELSE words[1] \o <<sep>> \o join(Tail(words), sep)

\* A faulty startsWith: only the whole word counts as its beginning.
sameText(s, prefix) == s = prefix

\* String.prototype.startsWith.
startsWith(s, prefix) ==
    /\ Len(prefix) <= Len(s)
    /\ SubSeq(s, 1, Len(prefix)) = prefix

\* The assertion \b between s[p] and s[p+1] (p in 0..Len(s)): exactly one
\* side is a word character; outside the string counts as a non-word.
\* A faulty wordBoundary: every position counts as a boundary, so an alias
\* is matched inside a longer word.
anyBoundary(s, p) == TRUE

isWordAt(s, i) == i \in 1..Len(s) /\ s[i] \in WordChars

wordBoundary(s, p) == isWordAt(s, p) # isWordAt(s, p + 1)

\* Does /\b(alt)\b/ match s at index i?
matchesAt(s, i, alt) ==
    /\ i + Len(alt) - 1 <= Len(s)
    /\ \A k \in 1..Len(alt) : s[i + k - 1] = alt[k]
    /\ wordBoundary(s, i - 1)
    /\ wordBoundary(s, i + Len(alt) - 1)

\* s.replace(/\b(alt1|alt2|...)\b/g, replacement), scanning from index i:
\* the leftmost index at or after i where an alternative matches is found
\* (the alternatives are tried in order there), the text before it is
\* copied, the match is replaced and the scan resumes after the match.
RECURSIVE replaceFrom(_, _, _, _)
replaceFrom(s, i, alts, replacement) ==
    LET starts == {j \in i..Len(s) :
                      \E k \in 1..Len(alts) : matchesAt(s, j, alts[k])}
    IN  IF starts = {} THEN SubSeq(s, i, Len(s))
        ELSE LET j == CHOOSE a \in starts : \A b \in starts : a <= b
                 hits == {k \in 1..Len(alts) : matchesAt(s, j, alts[k])}
                 k == CHOOSE h \in hits : \A g \in hits : h <= g
             IN  SubSeq(s, i, j - 1) \o replacement
                    \o replaceFrom(s, j + Len(alts[k]), alts, replacement)

replaceWords(s, alts, replacement) == replaceFrom(s, 1, alts, replacement)

(***************************************************************************)
(* Module constants of MantraTrainer.                                      *)
(***************************************************************************)

Languages == {"hindi", "hinglish"}

MANTRAS ==
    [hindi |-> <<
        "U+0950", " ", "U+092D", "U+0942", "U+0930", "U+094D", "U+092D",
        "U+0941", "U+0935", "U+0903", " ", "U+0938", "U+094D", "U+0935",
        "U+0903", " ", "U+0924", "U+0924", "U+094D", "U+0938", "U+0935",
        "U+093F", "U+0924", "U+0941", "U+0930", "U+094D", "U+0935", "U+0930",
        "U+0947", "U+0923", "U+094D", "U+092F", "U+092E", "U+094D", " ",
        "U+092D", "U+0930", "U+094D", "U+0917", "U+094B", " ", "U+0926",
        "U+0947", "U+0935", "U+0938", "U+094D", "U+092F", " ", "U+0927",
        "U+0940", "U+092E", "U+0939", "U+093F", " ", "U+0927", "U+093F",
        "U+092F", "U+094B", " ", "U+092F", "U+094B", " ", "U+0928", "U+0903",
        " ", "U+092A", "U+094D", "U+0930", "U+091A", "U+094B", "U+0926",
        "U+092F", "U+093E", "U+0924", "U+094D" >>,
     hinglish |-> <<
        "O", "m", " ", "b", "h", "u", "r", " ", "b", "h", "u", "v", "a", "h",
        " ", "s", "w", "a", "h", " ", "t", "a", "t", " ", "s", "a", "v", "i",
        "t", "u", "r", " ", "v", "a", "r", "e", "n", "y", "a", "m", " ", "b",
        "h", "a", "r", "g", "o", " ", "d", "e", "v", "a", "s", "y", "a", " ",
        "d", "h", "e", "e", "m", "a", "h", "i", " ", "d", "h", "i", "y", "o",
        " ", "y", "o", " ", "n", "a", "h", " ", "p", "r", "a", "c", "h", "o",
        "d", "a", "y", "a", "t" >>]

\* ACHIEVEMENTS, in array order.
ACHIEVEMENTS ==
    << [points |-> 100,  title |-> "Sanskrit Learner"],
       [points |-> 500,  title |-> "Bronze Mantra Medal"],
       [points |-> 1000, title |-> "Divine Devotee Certificate"] >>

\* The alternation of the hindi regular expression, in order.
HindiAliases == << <<"o", "m">>, <<"a", "u", "m">>, <<"O", "M">>, <<"A", "U", "M">> >>

\* The alternation of the hinglish regular expression, in order.
HinglishAliases == << <<"a", "u", "m">>, <<"A", "U", "M">> >>

OmGlyph == <<"U+0950">>

OmRoman == <<"O", "m">>

(***************************************************************************)
(* The scorer and the suggestion engine.                                   *)
(***************************************************************************)

autoCorrect(input, target, lang) ==
    IF lang = "hindi"
    THEN replaceWords(input, HindiAliases, OmGlyph)
    ELSE replaceWords(input, HinglishAliases, OmRoman)

getTypingSuggestion(input, target) ==
    LET targetWords == split(target, " ")
        inputWords  == split(trim(input), " ")
    IN  IF trim(input) = <<>> THEN targetWords[1]
        ELSE IF Len(inputWords) <= Len(targetWords)
        THEN LET currentWord == inputWords[Len(inputWords)]
                 targetWord  == targetWords[Len(inputWords)]
             IN  IF startsWith(targetWord, currentWord) /\ Len(currentWord) > 0
                 THEN targetWord
                 ELSE <<>>
        ELSE <<>>

\* checkAccuracy, lines "const corrected" .. "const inputNormalized".
normalize(s) == trim(toLowerCase(stripDandas(s)))

\* A faulty charMatches: the strings are aligned, so that characters after
\* one inserted character still count as matches.
alignedMatches(targetChars, inputChars) ==
    LET at(d) == Cardinality({i \in 1..Len(targetChars) :
                                 /\ i + d <= Len(inputChars)
                                 /\ targetChars[i] = inputChars[i + d]})
    IN  Max(at(0), at(1))

\* The number of indices below minLength at which the two strings agree.
charMatches(targetChars, inputChars) ==
    Cardinality({i \in 1..Min(Len(targetChars), Len(inputChars)) :
                    targetChars[i] = inputChars[i]})

\* A faulty tolerantMatch: no length test, and the matches are compared
\* with the length that was compared instead of the target's.
tolerantMatchOfPrefix(targetNormalized, inputNormalized) ==
    LET targetChars == stripWhiteSpace(targetNormalized)
        inputChars  == stripWhiteSpace(inputNormalized)
    IN  100 * charMatches(targetChars, inputChars)
            >= 85 * Min(Len(targetChars), Len(inputChars))

\* A faulty tolerantMatch: the matches are divided by the length of the
\* longer string instead of the target's.
tolerantMatchOfLonger(targetNormalized, inputNormalized) ==
    LET targetChars == stripWhiteSpace(targetNormalized)
        inputChars  == stripWhiteSpace(inputNormalized)
    IN  /\ 10 * Len(inputChars) >= 8 * Len(targetChars)
        /\ Len(targetChars) > 0
        /\ 100 * charMatches(targetChars, inputChars)
              >= 85 * Max(Len(targetChars), Len(inputChars))

\* The tolerant match: inputChars.length >= targetChars.length * 0.8 and
\* (matches / targetChars.length) * 100 >= 85.  With an empty targetChars
\* the quotient is NaN and the comparison is false.
tolerantMatch(targetNormalized, inputNormalized) ==
    LET targetChars == stripWhiteSpace(targetNormalized)
        inputChars  == stripWhiteSpace(inputNormalized)
    IN  /\ 10 * Len(inputChars) >= 8 * Len(targetChars)
        /\ Len(targetChars) > 0
        /\ 100 * charMatches(targetChars, inputChars) >= 85 * Len(targetChars)

\* A faulty partialAccuracy: the quotient is taken over the words that
\* were compared instead of the target's words.
partialAccuracyOfTyped(targetNormalized, inputNormalized) ==
    LET words      == split(targetNormalized, " ")
        inputWords == split(inputNormalized, " ")
        correct    == Cardinality({i \in 1..Min(Len(words), Len(inputWords)) :
                                      words[i] = inputWords[i]})
    IN  (correct * 100) \div Min(Len(words), Len(inputWords))

\* A faulty partialAccuracy: every input word that is a word of the target
\* is counted, whatever its index and beyond the target's length.
partialAccuracyOfAnyIndex(targetNormalized, inputNormalized) ==
    LET words      == split(targetNormalized, " ")
        inputWords == split(inputNormalized, " ")
        correct    == Cardinality({i \in 1..Len(inputWords) :
                                      \E j \in 1..Len(words) :
                                          words[j] = inputWords[i]})
    IN  (correct * 100) \div Len(words)

\* A faulty partialAccuracy: Math.round in the place of Math.floor.
partialAccuracyRounded(targetNormalized, inputNormalized) ==
    LET words      == split(targetNormalized, " ")
        inputWords == split(inputNormalized, " ")
        correct    == Cardinality({i \in 1..Min(Len(words), Len(inputWords)) :
                                      words[i] = inputWords[i]})
    IN  (2 * correct * 100 + Len(words)) \div (2 * Len(words))

\* The word fallback: Math.floor((correct / words.length) * 100).  The
\* IEEE-754 value equals the integer quotient for every words.length < 50.
partialAccuracy(targetNormalized, inputNormalized) ==
    LET words      == split(targetNormalized, " ")
        inputWords == split(inputNormalized, " ")
        correct    == Cardinality({i \in 1..Min(Len(words), Len(inputWords)) :
                                      words[i] = inputWords[i]})
    IN  (correct * 100) \div Len(words)

checkAccuracy(input, target, lang) ==
    LET corrected        == autoCorrect(input, target, lang)
        targetNormalized == normalize(target)
        inputNormalized  == normalize(corrected)
    IN  IF inputNormalized = targetNormalized THEN 100
        ELSE IF tolerantMatch(targetNormalized, inputNormalized) THEN 100
        ELSE partialAccuracy(targetNormalized, inputNormalized)

(***************************************************************************)
(* The user progress record and the award of a completed session.          *)
(***************************************************************************)

ZeroProgress == [totalPoints |-> 0, achievements |-> <<>>, completedSessions |-> 0]

\* A faulty includes: the membership test of the award step always fails.
neverIncludes(list, item) == FALSE

includes(list, item) == \E i \in 1..Len(list) : list[i] = item

\* ACHIEVEMENTS.forEach from index i on: push the title when the points
\* reach the threshold and the list does not include the title yet.
RECURSIVE awardFrom(_, _, _)
awardFrom(i, totalPoints, newAchievements) ==
    IF i > Len(ACHIEVEMENTS) THEN newAchievements
    ELSE IF /\ totalPoints >= ACHIEVEMENTS[i].points
            /\ ~includes(newAchievements, ACHIEVEMENTS[i].title)
         THEN awardFrom(i + 1, totalPoints,
                        Append(newAchievements, ACHIEVEMENTS[i].title))
         ELSE awardFrom(i + 1, totalPoints, newAchievements)

\* "Check for new achievements".
checkAchievements(totalPoints, achievements) ==
    awardFrom(1, totalPoints, achievements)

\* The points a completed session awards.
SessionAward == 10

\* The repetitions that complete a session.
RepetitionsPerSession == 3

\* newProgress of the branch newCount === 3.
sessionComplete(progress) ==
    [totalPoints       |-> progress.totalPoints + SessionAward,
     completedSessions |-> progress.completedSessions + 1,
     achievements      |-> checkAchievements(progress.totalPoints + SessionAward,
                                             progress.achievements)]

(***************************************************************************)
(* Bounds of the model.                                                    *)
(***************************************************************************)

\* Sessions completed in one behaviour.
MaxSessions == 1

\* Pending setTimeout callbacks.
MaxTimers == 2

\* Remote requests in flight.
MaxRequests == 1

\* The repetition counter is not incremented beyond this value.
MaxCount == 4

\* Repetitions accepted between two openings of the page or clicks on
\* Reset Session.
MaxReps == 4

(***************************************************************************)
(* State.                                                                  *)
(***************************************************************************)

VARIABLES
    build,            \* the MantraTrainer revision that is mounted
    language,         \* useState: 'hindi' | 'hinglish'
    currentInput,     \* useState: the text of the textarea
    repetitionCount,  \* useState
    userProgress,     \* useState: the in-memory user progress record
    isCompleted,      \* useState
    suggestion,       \* useState
    showAuthPopup,    \* useState (revision v2)
    userName,         \* useState (revision v2)
    isLoggedIn,       \* useState (revision v2)
    user,             \* useState (revision v3): <<>> is null
    loading,          \* useState (revision v3)
    authSession,      \* supabase.auth holds a session (revision v3)
    timers,           \* pending setTimeout callbacks, in scheduling order
    localStorage,     \* the keys of window.localStorage the code uses
    remoteRow,        \* the remote table row of the user: <<>> is no row
    requests,         \* remote requests in flight, in sending order
    tally,            \* history: the accepted repetitions and their awards
    probe             \* the arguments and results of a scorer call

vars ==
    <<build, language, currentInput, repetitionCount, userProgress,
      isCompleted, suggestion, showAuthPopup, userName, isLoggedIn, user,
      loading, authSession, timers, localStorage, remoteRow, requests,
      tally, probe>>

\* The three revisions of the component in the repository:
\*   v1  scores on every input change      (MantraTrainer.tsx, first copy)
\*   v2  scores on Submit, name/password   (MantraTrainer.tsx, second copy)
\*   v3  scores on Submit, awaits the save (part_002)
Builds == {"v1", "v2", "v3"}

None == <<>>

\* The one user of the model.
UserName == "Kunj"

UserId == "uid-1"

\* The stored form of a progress record; x || 0 and x || [] are the
\* identity on the numbers and arrays the code itself stores.
stored(name, progress) ==
    [name              |-> name,
     totalPoints       |-> progress.totalPoints,
     completedSessions |-> progress.completedSessions,
     achievements      |-> progress.achievements]

progressOf(data) ==
    [totalPoints       |-> data.totalPoints,
     achievements      |-> data.achievements,
     completedSessions |-> data.completedSessions]

EmptyStorage ==
    [progress    |-> None,    \* 'mantra-progress'
     session     |-> None,    \* 'mantra-user-session'
     user        |-> None,    \* 'mantra-user'
     oldUserName |-> None,    \* 'mantra-user-name'
     authSkipped |-> FALSE,   \* 'mantra-auth-skipped'
     authIntro   |-> FALSE]   \* 'mantra-auth-intro'

\* reps, sessions, points: the repetitions accepted since the page was
\* opened or Reset Session was clicked, and the sessions and points they
\* awarded; completed: the sessions completed in the behaviour; cleared:
\* the input was emptied by a callback or by Reset Session (or the page was
\* opened) after the last repetition was accepted.
startTally(completed) ==
    [reps |-> 0, sessions |-> 0, points |-> 0, completed |-> completed,
     cleared |-> TRUE]

NoProbe == [kind |-> "none"]

\* setTimeout delays.
ClearDelay == 1000

ResetDelay == 3000

delayOf(timer) == IF timer = "clear" THEN ClearDelay ELSE ResetDelay

\* A pending callback can run once every callback that was scheduled before
\* it with a delay not longer than its own has run.
canFire(i) ==
    /\ i \in 1..Len(timers)
    /\ \A j \in 1..(i - 1) : delayOf(timers[j]) > delayOf(timers[i])

removeAt(seq, i) == SubSeq(seq, 1, i - 1) \o SubSeq(seq, i + 1, Len(seq))

\* The effect on [language, currentInput]: it runs when one of them changed
\* and overwrites what the handler set when the new input is empty.
initialSuggestion ==
    [lang \in Languages |-> getTypingSuggestion(<<>>, MANTRAS[lang])]

suggestionEffect(newLanguage, newInput, handlerSuggestion) ==
    IF (newLanguage # language \/ newInput # currentInput) /\ newInput = <<>>
    THEN initialSuggestion[newLanguage]
    ELSE handlerSuggestion

updateRequest(name, progress, resume) ==
    [kind |-> "update", name |-> name, row |-> progress, resume |-> resume]

loadRequest == [kind |-> "load", name |-> UserName, row |-> ZeroProgress, resume |-> TRUE]

\* The requests in flight after one more was sent.  An update no handler
\* waits for that repeats one already in flight adds no outcome (the row
\* ends with the same values in every order of completion): it is kept once.
send(reqs, request) ==
    IF ~request.resume /\ \E i \in 1..Len(reqs) : reqs[i] = request
    THEN reqs
    ELSE Append(reqs, request)

\* A faulty saveProgressEffect: the signed-in branch writes the session
\* entry and sends no update.
saveProgressEffectLocal(storage, reqs, progress, logged, name) ==
    IF logged /\ name # ""
    THEN [storage  |-> [storage EXCEPT !.session = <<stored(name, progress)>>],
          requests |-> reqs]
    ELSE IF name # ""
    THEN [storage  |-> [storage EXCEPT !.user = <<stored(name, progress)>>],
          requests |-> reqs]
    ELSE [storage |-> storage, requests |-> reqs]

\* The effect on [userProgress, isLoggedIn, userName] of revision v2, run
\* with the new state: the pair of the new storage and the new requests.
saveProgressEffect(storage, reqs, progress, logged, name) ==
    IF logged /\ name # ""
    THEN [storage  |-> [storage EXCEPT !.session = <<stored(name, progress)>>],
          requests |-> send(reqs, updateRequest(name, progress, FALSE))]
    ELSE IF name # ""
    THEN [storage  |-> [storage EXCEPT !.user = <<stored(name, progress)>>],
          requests |-> reqs]
    ELSE [storage |-> storage, requests |-> reqs]

(***************************************************************************)
(* Mounting the component: useState initial values and the mount effects.  *)
(***************************************************************************)

\* Revision v1: the load effect reads 'mantra-progress', the save effect
\* writes the record back.
mountV1(storage, reqs) ==
    LET progress == IF storage.progress # None
                    THEN storage.progress[1] ELSE ZeroProgress
    IN  [userProgress |-> progress, userName |-> "", isLoggedIn |-> FALSE,
         showAuthPopup |-> FALSE, user |-> None, loading |-> FALSE,
         storage  |-> [storage EXCEPT !.progress = <<progress>>],
         requests |-> reqs]

\* Revision v2: checkAuthStatus, then the save effect with the loaded state.
mountV2(storage, reqs) ==
    IF storage.session # None
    THEN LET userData == storage.session[1]
             saved    == saveProgressEffect(storage, reqs, progressOf(userData),
                                            TRUE, userData.name)
         IN  [userProgress |-> progressOf(userData), userName |-> userData.name,
              isLoggedIn |-> TRUE, showAuthPopup |-> FALSE, user |-> None,
              loading |-> FALSE, storage |-> saved.storage,
              requests |-> saved.requests]
    ELSE IF storage.user # None
    THEN LET userData == storage.user[1]
             saved    == saveProgressEffect(storage, reqs, progressOf(userData),
                                            FALSE, userData.name)
         IN  [userProgress |-> progressOf(userData), userName |-> userData.name,
              isLoggedIn |-> FALSE, showAuthPopup |-> FALSE, user |-> None,
              loading |-> FALSE, storage |-> saved.storage,
              requests |-> saved.requests]
    ELSE IF storage.oldUserName # None
    THEN LET progressData == IF storage.progress # None
                             THEN storage.progress[1] ELSE ZeroProgress
             migrated == [storage EXCEPT
                             !.user = <<stored(storage.oldUserName[1], progressData)>>,
                             !.authSkipped = TRUE,
                             !.oldUserName = None,
                             !.progress = None]
             saved    == saveProgressEffect(migrated, reqs, progressData,
                                            FALSE, storage.oldUserName[1])
         IN  [userProgress |-> progressData, userName |-> storage.oldUserName[1],
              isLoggedIn |-> FALSE, showAuthPopup |-> FALSE, user |-> None,
              loading |-> FALSE, storage |-> saved.storage,
              requests |-> saved.requests]
    ELSE LET popup == ~storage.authSkipped /\ ~storage.authIntro
         IN  [userProgress |-> ZeroProgress, userName |-> "",
              isLoggedIn |-> FALSE, showAuthPopup |-> popup, user |-> None,
              loading |-> FALSE,
              storage |-> IF popup THEN [storage EXCEPT !.authIntro = TRUE]
                          ELSE storage,
              requests |-> reqs]

\* Revision v3: checkAuthState up to its first remote request; without a
\* session it runs to its end.
mountV3(storage, session, reqs) ==
    [userProgress |-> ZeroProgress, userName |-> "", isLoggedIn |-> FALSE,
     showAuthPopup |-> FALSE,
     user     |-> IF session THEN <<UserId>> ELSE None,
     loading  |-> session,
     storage  |-> storage,
     requests |-> IF session THEN send(reqs, loadRequest) ELSE reqs]

mount(revision, storage, session, reqs) ==
    IF revision = "v1" THEN mountV1(storage, reqs)
    ELSE IF revision = "v2" THEN mountV2(storage, reqs)
    ELSE mountV3(storage, session, reqs)

\* Records an earlier visit can have left in storage or in the remote table.
SeedRecords ==
    {ZeroProgress,
     [totalPoints |-> 490, achievements |-> <<ACHIEVEMENTS[1].title>>,
      completedSessions |-> 49]}

\* What window.localStorage holds when the page is opened.
SeedStorage(revision) ==
    IF revision = "v1"
    THEN {EmptyStorage} \cup
         {[EmptyStorage EXCEPT !.progress = <<r>>] : r \in SeedRecords}
    ELSE IF revision = "v2"
    THEN {EmptyStorage}
         \cup {[EmptyStorage EXCEPT !.session = <<stored(UserName, r)>>,
                                    !.user = <<stored(UserName, r)>>,
                                    !.authIntro = TRUE] : r \in SeedRecords}
         \cup {[EmptyStorage EXCEPT !.user = <<stored(UserName, r)>>,
                                    !.authSkipped = TRUE] : r \in SeedRecords}
         \cup {[EmptyStorage EXCEPT !.oldUserName = <<UserName>>,
                                    !.progress = <<r>>] : r \in SeedRecords}
    ELSE {EmptyStorage}

\* What the remote table holds for the user when the page is opened.
SeedRemote(revision, storage) ==
    IF revision = "v1" THEN {None}
    ELSE IF revision = "v2" /\ storage.session # None
    THEN {<<progressOf(storage.session[1])>>}
    ELSE {None} \cup {<<r>> : r \in SeedRecords}

\* The state after the component is mounted for the first time.
mounted(revision, storage, remote, session) ==
    LET m == mount(revision, storage, session, <<>>)
    IN  /\ build = revision
        /\ language = "hindi"
        /\ currentInput = <<>>
        /\ repetitionCount = 0
        /\ userProgress = m.userProgress
        /\ isCompleted = FALSE
        /\ suggestion = initialSuggestion["hindi"]
        /\ showAuthPopup = m.showAuthPopup
        /\ userName = m.userName
        /\ isLoggedIn = m.isLoggedIn
        /\ user = m.user
        /\ loading = m.loading
        /\ authSession = session
        /\ timers = <<>>
        /\ localStorage = m.storage
        /\ remoteRow = remote
        /\ requests = m.requests
        /\ tally = startTally(0)

Init ==
    /\ \E revision \in Builds :
       \E storage \in SeedStorage(revision) :
       \E remote \in SeedRemote(revision, storage) :
       \E session \in {revision = "v3", FALSE} :
           mounted(revision, storage, remote, session)
    /\ probe = NoProbe

\* The user reloads the page: the component state, the pending callbacks
\* and the continuations of pending requests are gone; storage, the remote
\* table and the updates already sent remain.
Reload ==
    /\ LET sent == SelectSeq(requests, LAMBDA r : r.kind = "update")
           kept == [i \in 1..Len(sent) |-> [sent[i] EXCEPT !.resume = FALSE]]
           m    == mount(build, localStorage, authSession, kept)
       IN  /\ Len(m.requests) <= MaxRequests
           /\ language' = "hindi"
           /\ currentInput' = <<>>
           /\ repetitionCount' = 0
           /\ userProgress' = m.userProgress
           /\ isCompleted' = FALSE
           /\ suggestion' = initialSuggestion["hindi"]
           /\ showAuthPopup' = m.showAuthPopup
           /\ userName' = m.userName
           /\ isLoggedIn' = m.isLoggedIn
           /\ user' = m.user
           /\ loading' = m.loading
           /\ timers' = <<>>
           /\ localStorage' = m.storage
           /\ requests' = m.requests
    /\ tally' = startTally(tally.completed)
    /\ UNCHANGED <<build, authSession, remoteRow, probe>>

(***************************************************************************)
(* The handlers every revision has.                                        *)
(***************************************************************************)

\* The controls of the trainer can be used: the sign-in dialog of v2 is
\* modal, v3 renders a spinner while loading and the sign-in page without
\* a user.
uiEnabled ==
    IF build = "v2" THEN ~showAuthPopup
    ELSE IF build = "v3" THEN ~loading /\ user # None
    ELSE TRUE

\* The inputs a change event of the textarea delivers in the model.
TypedValues ==
    {MANTRAS["hinglish"], MANTRAS["hindi"]}

\* The texts the textarea holds in the model: the typed values, and what a
\* click on the suggestion makes of them and of the empty input.
Texts ==
    {<<>>, <<" ">>} \cup TypedValues
        \cup {value \o <<" ">> : value \in TypedValues}
        \cup {initialSuggestion[lang] \o <<" ">> : lang \in Languages}

\* checkAccuracy(text, target, language) with target = MANTRAS[language];
\* the results for Texts are computed once.
accuracyOf ==
    [lang \in Languages |->
        [text \in Texts |-> checkAccuracy(text, MANTRAS[lang], lang)]]

\* A faulty accuracy: every text is scored 100.
alwaysAccepted(text, lang) == 100

accuracy(text, lang) ==
    IF text \in Texts THEN accuracyOf[lang][text]
    ELSE checkAccuracy(text, MANTRAS[lang], lang)

\* getTypingSuggestion(text, target) with target = MANTRAS[language].
suggestionOf ==
    [lang \in Languages |->
        [text \in Texts |-> getTypingSuggestion(text, MANTRAS[lang])]]

typingSuggestion(text, lang) ==
    IF text \in Texts THEN suggestionOf[lang][text]
    ELSE getTypingSuggestion(text, MANTRAS[lang])

\* The history of accepted repetitions after one more was accepted.
tallyAccept(newProgress) ==
    LET completed == tally.completed + newProgress.completedSessions
                        - userProgress.completedSessions
    IN  [reps      |-> tally.reps + 1,
         sessions  |-> tally.sessions + newProgress.completedSessions
                          - userProgress.completedSessions,
         points    |-> tally.points + newProgress.totalPoints
                          - userProgress.totalPoints,
         completed |-> completed,
         cleared   |-> FALSE]

\* The bounds permit accepting one more repetition.
canAccept ==
    /\ Len(timers) < MaxTimers
    /\ repetitionCount < MaxCount
    /\ tally.reps < MaxReps
    /\ repetitionCount + 1 = RepetitionsPerSession
          => tally.completed < MaxSessions

\* A faulty setLanguage: the repetitions of the other variant are dropped.
setLanguageAndRestart(value) ==
    /\ uiEnabled
    /\ value # language
    /\ language' = value
    /\ repetitionCount' = 0
    /\ suggestion' = suggestionEffect(value, currentInput, suggestion)
    /\ UNCHANGED <<build, currentInput, userProgress,
                   isCompleted, showAuthPopup, userName, isLoggedIn, user,
                   loading, authSession, timers, localStorage, remoteRow,
                   requests, tally, probe>>

\* onValueChange of the language selector.
setLanguage(value) ==
    /\ uiEnabled
    /\ value # language
    /\ language' = value
    /\ suggestion' = suggestionEffect(value, currentInput, suggestion)
    /\ UNCHANGED <<build, currentInput, repetitionCount, userProgress,
                   isCompleted, showAuthPopup, userName, isLoggedIn, user,
                   loading, authSession, timers, localStorage, remoteRow,
                   requests, tally, probe>>

\* A faulty resetSession: it also zeroes the user progress record.
resetSessionAndProgress ==
    /\ uiEnabled
    /\ currentInput' = <<>>
    /\ repetitionCount' = 0
    /\ isCompleted' = FALSE
    /\ suggestion' = suggestionEffect(language, <<>>, suggestion)
    /\ userProgress' = ZeroProgress
    /\ tally' = startTally(tally.completed)
    /\ UNCHANGED <<build, language, showAuthPopup, userName, isLoggedIn,
                   user, loading, authSession, timers, localStorage,
                   remoteRow, requests, probe>>

resetSession ==
    /\ uiEnabled
    /\ currentInput' = <<>>
    /\ repetitionCount' = 0
    /\ isCompleted' = FALSE
    /\ suggestion' = suggestionEffect(language, <<>>, suggestion)
    /\ tally' = startTally(tally.completed)
    /\ UNCHANGED <<build, language, userProgress, showAuthPopup, userName,
                   isLoggedIn, user, loading, authSession, timers,
                   localStorage, remoteRow, requests, probe>>

\* The text handleSuggestionClick passes to getTypingSuggestion: in the
\* empty-input branch the word list is left as split produced it.
suggestionClickWords ==
    LET words == split(trim(currentInput), " ")
    IN  IF trim(currentInput) = <<>> THEN words
        ELSE [words EXCEPT ![Len(words)] = suggestion]

handleSuggestionClick ==
    /\ uiEnabled
    /\ ~isCompleted
    /\ suggestion # <<>>
    /\ currentInput' = IF trim(currentInput) = <<>>
                       THEN suggestion \o <<" ">>
                       ELSE join(suggestionClickWords, " ") \o <<" ">>
    /\ suggestion' = suggestionEffect(language, currentInput',
                        typingSuggestion(join(suggestionClickWords, " ") \o <<" ">>,
                                         language))
    /\ UNCHANGED <<build, language, repetitionCount, userProgress,
                   isCompleted, showAuthPopup, userName, isLoggedIn, user,
                   loading, authSession, timers, localStorage, remoteRow,
                   requests, tally, probe>>

\* A setTimeout callback runs: the one of the third repetition ("reset") or
\* the one of an earlier repetition ("clear").
fireTimer(i) ==
    /\ canFire(i)
    /\ currentInput' = <<>>
    /\ suggestion' = suggestionEffect(language, <<>>, <<>>)
    /\ IF timers[i] = "reset"
       THEN repetitionCount' = 0 /\ isCompleted' = FALSE
       ELSE UNCHANGED <<repetitionCount, isCompleted>>
    /\ timers' = removeAt(timers, i)
    /\ tally' = [tally EXCEPT !.cleared = TRUE]
    /\ UNCHANGED <<build, language, userProgress, showAuthPopup, userName,
                   isLoggedIn, user, loading, authSession, localStorage,
                   remoteRow, requests, probe>>

(***************************************************************************)
(* Revision v1: every input change is scored.                              *)
(***************************************************************************)

handleInputChangeV1(value) ==
    /\ build = "v1"
    /\ ~isCompleted
    /\ value # currentInput
    /\ currentInput' = value
    /\ LET newCount == repetitionCount + 1
       IN  IF accuracy(value, language) = 100
           THEN /\ canAccept
                /\ repetitionCount' = newCount
                /\ suggestion' = suggestionEffect(language, value, <<>>)
                /\ IF newCount = RepetitionsPerSession
                   THEN /\ userProgress' = sessionComplete(userProgress)
                        /\ isCompleted' = TRUE
                        /\ timers' = Append(timers, "reset")
                        /\ localStorage' = [localStorage EXCEPT
                              !.progress = <<sessionComplete(userProgress)>>]
                        /\ tally' = tallyAccept(sessionComplete(userProgress))
                   ELSE /\ timers' = Append(timers, "clear")
                        /\ tally' = tallyAccept(userProgress)
                        /\ UNCHANGED <<userProgress, isCompleted, localStorage>>
           ELSE /\ suggestion' = suggestionEffect(language, value,
                                    typingSuggestion(value, language))
                /\ UNCHANGED <<repetitionCount, userProgress, isCompleted,
                               timers, localStorage, tally>>
    /\ UNCHANGED <<build, language, showAuthPopup, userName, isLoggedIn,
                   user, loading, authSession, remoteRow, requests, probe>>

(***************************************************************************)
(* Revisions v2 and v3: the input is scored on Submit.                     *)
(***************************************************************************)

handleInputChange(value) ==
    /\ build \in {"v2", "v3"}
    /\ uiEnabled
    /\ ~isCompleted
    /\ value # currentInput
    /\ currentInput' = value
    /\ suggestion' = suggestionEffect(language, value,
                        typingSuggestion(value, language))
    /\ UNCHANGED <<build, language, repetitionCount, userProgress,
                   isCompleted, showAuthPopup, userName, isLoggedIn, user,
                   loading, authSession, timers, localStorage, remoteRow,
                   requests, tally, probe>>

\* The Submit button is rendered while the session is not completed and is
\* disabled while the trimmed input is empty.
submitEnabled == uiEnabled /\ ~isCompleted /\ trim(currentInput) # <<>>

\* Revision v2.  The save effect runs in the branch that sets userProgress.
handleSubmitV2 ==
    /\ build = "v2"
    /\ submitEnabled
    /\ LET newCount == repetitionCount + 1
           saved    == saveProgressEffect(localStorage, requests,
                          sessionComplete(userProgress), isLoggedIn, userName)
       IN  IF accuracy(currentInput, language) = 100
           THEN /\ canAccept
                /\ repetitionCount' = newCount
                /\ suggestion' = <<>>
                /\ IF newCount = RepetitionsPerSession
                   THEN /\ Len(saved.requests) <= MaxRequests
                        /\ userProgress' = sessionComplete(userProgress)
                        /\ isCompleted' = TRUE
                        /\ timers' = Append(timers, "reset")
                        /\ localStorage' = saved.storage
                        /\ requests' = saved.requests
                        /\ tally' = tallyAccept(sessionComplete(userProgress))
                   ELSE /\ timers' = Append(timers, "clear")
                        /\ tally' = tallyAccept(userProgress)
                        /\ UNCHANGED <<userProgress, isCompleted, localStorage,
                                       requests>>
           ELSE UNCHANGED <<repetitionCount, suggestion, userProgress,
                               isCompleted, timers, localStorage, requests,
                               tally>>
    /\ UNCHANGED <<build, language, currentInput, showAuthPopup, userName,
                   isLoggedIn, user, loading, authSession, remoteRow, probe>>

\* Revision v3, up to "await saveUserProgress(newProgress)": in the branch
\* newCount === 3 the handler is suspended with the update in flight;
\* setIsCompleted and the setTimeout follow when the request is done.
handleSubmitV3 ==
    /\ build = "v3"
    /\ submitEnabled
    /\ LET newCount == repetitionCount + 1
       IN  IF accuracy(currentInput, language) = 100
           THEN /\ canAccept
                /\ repetitionCount' = newCount
                /\ suggestion' = <<>>
                /\ IF newCount = RepetitionsPerSession
                   THEN /\ Len(requests) < MaxRequests
                        /\ userProgress' = sessionComplete(userProgress)
                        /\ requests' = send(requests,
                              updateRequest(UserName,
                                            sessionComplete(userProgress), TRUE))
                        /\ tally' = tallyAccept(sessionComplete(userProgress))
                        /\ UNCHANGED timers
                   ELSE /\ timers' = Append(timers, "clear")
                        /\ tally' = tallyAccept(userProgress)
                        /\ UNCHANGED <<userProgress, requests>>
           ELSE UNCHANGED <<repetitionCount, suggestion, userProgress,
                               timers, requests, tally>>
    /\ UNCHANGED <<build, language, currentInput, isCompleted, showAuthPopup,
                   userName, isLoggedIn, user, loading, authSession,
                   localStorage, remoteRow, probe>>

\* A faulty updateDone: saveUserProgress without its try/catch, so that a
\* failed update ends the suspended handleSubmit.
updateDoneOrThrow(i, ok) ==
    /\ i \in 1..Len(requests)
    /\ requests[i].kind = "update"
    /\ requests' = removeAt(requests, i)
    /\ remoteRow' = IF ok /\ requests[i].name = UserName /\ remoteRow # None
                    THEN <<requests[i].row>>
                    ELSE remoteRow
    /\ IF requests[i].resume /\ ok
       THEN /\ Len(timers) < MaxTimers
            /\ isCompleted' = TRUE
            /\ timers' = Append(timers, "reset")
       ELSE UNCHANGED <<isCompleted, timers>>
    /\ UNCHANGED <<build, language, currentInput, repetitionCount,
                   userProgress, suggestion, showAuthPopup, userName,
                   isLoggedIn, user, loading, authSession, localStorage,
                   tally, probe>>

\* A remote update is done.  It changes the row when it succeeds and the
\* row it names exists; a suspended handleSubmit of v3 then resumes,
\* whether or not the update succeeded.
updateDone(i, ok) ==
    /\ i \in 1..Len(requests)
    /\ requests[i].kind = "update"
    /\ requests' = removeAt(requests, i)
    /\ remoteRow' = IF ok /\ requests[i].name = UserName /\ remoteRow # None
                    THEN <<requests[i].row>>
                    ELSE remoteRow
    /\ IF requests[i].resume
       THEN /\ Len(timers) < MaxTimers
            /\ isCompleted' = TRUE
            /\ timers' = Append(timers, "reset")
       ELSE UNCHANGED <<isCompleted, timers>>
    /\ UNCHANGED <<build, language, currentInput, repetitionCount,
                   userProgress, suggestion, showAuthPopup, userName,
                   isLoggedIn, user, loading, authSession, localStorage,
                   tally, probe>>

(***************************************************************************)
(* Revision v2: the sign-in dialog, the merge and logout.                  *)
(***************************************************************************)

\* [...new Set(list)]: the first occurrence of every element, in order.
dedupe(list) ==
    SelectSeq([i \in 1..Len(list) |->
                  IF \E j \in 1..(i - 1) : list[j] = list[i]
                  THEN <<>> ELSE <<list[i]>>],
              LAMBDA e : e # <<>>)

\* A faulty unique: the list is returned with its repetitions.
repeated(list) == list

unique(list) == [i \in 1..Len(dedupe(list)) |-> dedupe(list)[i][1]]

\* A faulty mergedProgress: the points of the two records are added.
mergedProgressAdded(userData, progress) ==
    [totalPoints       |-> userData.totalPoints + progress.totalPoints,
     completedSessions |-> Max(userData.completedSessions,
                               progress.completedSessions),
     achievements      |-> unique(userData.achievements \o progress.achievements)]

\* mergedProgress of handleAuthSuccess.
mergedProgress(userData, progress) ==
    [totalPoints       |-> Max(userData.totalPoints, progress.totalPoints),
     completedSessions |-> Max(userData.completedSessions,
                               progress.completedSessions),
     achievements      |-> unique(userData.achievements \o progress.achievements)]

\* "If local progress was higher, update the database".
localWasHigher(merged, userData) ==
    \/ merged.totalPoints > userData.totalPoints
    \/ merged.completedSessions > userData.completedSessions
    \/ Len(merged.achievements) > Len(userData.achievements)

handleLogin ==
    /\ build = "v2"
    /\ ~showAuthPopup
    /\ ~isLoggedIn
    /\ showAuthPopup' = TRUE
    /\ UNCHANGED <<build, language, currentInput, repetitionCount,
                   userProgress, isCompleted, suggestion, userName,
                   isLoggedIn, user, loading, authSession, timers,
                   localStorage, remoteRow, requests, tally, probe>>

\* AuthPopup.handleSkip, or the dialog is dismissed (skip = FALSE).
closeAuthPopup(skip) ==
    /\ build = "v2"
    /\ showAuthPopup
    /\ showAuthPopup' = FALSE
    /\ localStorage' = IF skip THEN [localStorage EXCEPT !.authSkipped = TRUE]
                       ELSE localStorage
    /\ UNCHANGED <<build, language, currentInput, repetitionCount,
                   userProgress, isCompleted, suggestion, userName,
                   isLoggedIn, user, loading, authSession, timers,
                   remoteRow, requests, tally, probe>>

\* AuthPopup.handleSubmit succeeds and calls handleAuthSuccess: a login
\* reads the row of the user, a registration inserts a zero row.  The
\* update of updateUserProgressInSupabase names the userName of the render
\* that created the handler; with the empty name it matches no row, changes
\* nothing and nothing waits for it, so it is not kept in flight.  The save
\* effect then runs with the new state.
handleAuthSuccess ==
    /\ build = "v2"
    /\ showAuthPopup
    /\ LET userData == IF remoteRow # None THEN remoteRow[1] ELSE ZeroProgress
           merged   == mergedProgress(userData, userProgress)
           session  == [localStorage EXCEPT
                           !.session = <<stored(UserName, userData)>>,
                           !.user = <<stored(UserName, merged)>>]
           sent     == IF localWasHigher(merged, userData) /\ userName # ""
                       THEN send(requests, updateRequest(userName, merged, FALSE))
                       ELSE requests
           saved    == saveProgressEffect(session, sent, merged, TRUE, UserName)
       IN  /\ Len(saved.requests) <= MaxRequests
           /\ remoteRow' = <<userData>>
           /\ userName' = UserName
           /\ isLoggedIn' = TRUE
           /\ userProgress' = merged
           /\ showAuthPopup' = FALSE
           /\ localStorage' = saved.storage
           /\ requests' = saved.requests
    /\ UNCHANGED <<build, language, currentInput, repetitionCount,
                   isCompleted, suggestion, user, loading, authSession,
                   timers, tally, probe>>

handleLogout ==
    /\ build = "v2"
    /\ ~showAuthPopup
    /\ isLoggedIn
    /\ userName' = ""
    /\ isLoggedIn' = FALSE
    /\ userProgress' = ZeroProgress
    /\ localStorage' = [localStorage EXCEPT !.user = None, !.session = None,
                                            !.authSkipped = FALSE]
    /\ UNCHANGED <<build, language, currentInput, repetitionCount,
                   isCompleted, suggestion, showAuthPopup, user, loading,
                   authSession, timers, remoteRow, requests, tally, probe>>

(***************************************************************************)
(* Revision v3: sign-in, the load of the stored record and sign-out.       *)
(***************************************************************************)

\* The sign-in page reports success: handleAuthSuccess runs checkAuthState,
\* which sets the user and requests the stored record.
handleAuthSuccessV3 ==
    /\ build = "v3"
    /\ ~loading
    /\ user = None
    /\ Len(requests) < MaxRequests
    /\ authSession' = TRUE
    /\ user' = <<UserId>>
    /\ requests' = send(requests, loadRequest)
    /\ UNCHANGED <<build, language, currentInput, repetitionCount,
                   userProgress, isCompleted, suggestion, showAuthPopup,
                   userName, isLoggedIn, loading, timers, localStorage,
                   remoteRow, tally, probe>>

\* The select of loadUserProgress is done.  With a row the record is set;
\* without one createUserProgress inserts a zero row (the insert can fail);
\* an error is logged.  checkAuthState then sets loading to false.
loadDone(i, ok, created) ==
    /\ i \in 1..Len(requests)
    /\ requests[i].kind = "load"
    /\ requests' = removeAt(requests, i)
    /\ IF ok /\ remoteRow # None
       THEN /\ created
            /\ userProgress' = remoteRow[1]
            /\ UNCHANGED remoteRow
       ELSE IF ok
       THEN /\ remoteRow' = IF created THEN <<ZeroProgress>> ELSE None
            /\ UNCHANGED userProgress
       ELSE /\ created
            /\ UNCHANGED <<userProgress, remoteRow>>
    /\ loading' = FALSE
    /\ UNCHANGED <<build, language, currentInput, repetitionCount,
                   isCompleted, suggestion, showAuthPopup, userName,
                   isLoggedIn, user, authSession, timers, localStorage,
                   tally, probe>>

handleSignOut ==
    /\ build = "v3"
    /\ uiEnabled
    /\ authSession' = FALSE
    /\ user' = None
    /\ userProgress' = ZeroProgress
    /\ UNCHANGED <<build, language, currentInput, repetitionCount,
                   isCompleted, suggestion, showAuthPopup, userName,
                   isLoggedIn, loading, timers, localStorage, remoteRow,
                   requests, tally, probe>>

Next ==
    \/ Reload
    \/ \E value \in Languages : setLanguage(value)
    \/ resetSession
    \/ handleSuggestionClick
    \/ \E i \in 1..MaxTimers : fireTimer(i)
    \/ \E value \in TypedValues : handleInputChangeV1(value)
    \/ \E value \in TypedValues : handleInputChange(value)
    \/ handleSubmitV2
    \/ handleSubmitV3
    \/ \E i \in 1..MaxRequests, ok \in BOOLEAN : updateDone(i, ok)
    \/ handleLogin
    \/ \E skip \in BOOLEAN : closeAuthPopup(skip)
    \/ handleAuthSuccess
    \/ handleLogout
    \/ handleAuthSuccessV3
    \/ \E i \in 1..MaxRequests, ok \in BOOLEAN, created \in BOOLEAN :
          loadDone(i, ok, created)
    \/ handleSignOut

Spec == Init /\ [][Next]_vars

\* A scheduled setTimeout callback runs, and a remote request that was sent
\* is answered or fails: the timers and the requests are not starved.
SpecLive ==
    /\ Spec
    /\ WF_vars(\E i \in 1..MaxTimers : fireTimer(i))
    /\ WF_vars(\E i \in 1..MaxRequests, ok \in BOOLEAN : updateDone(i, ok))
    /\ WF_vars(\E i \in 1..MaxRequests, ok \in BOOLEAN, created \in BOOLEAN :
                  loadDone(i, ok, created))

(***************************************************************************)
(* Calls of the pure functions with arguments drawn from bounded sets.     *)
(***************************************************************************)

\* Tokens a probed input is concatenated from.
MaxTokens == 3

namaha == <<"n", "a", "m", "a", "h", "a">>

\* The letter-case spellings of om and aum that are probed.
OmSpellings ==
    {<<"o", "m">>, <<"O", "m">>, <<"O", "M">>,
     <<"a", "u", "m">>, <<"A", "u", "m">>, <<"A", "U", "M">>}

ProbeTokens ==
    OmSpellings \cup
    {<<" ">>, <<",">>, <<"x">>, <<"U+0964">>, namaha, SubSeq(namaha, 1, 5)}

TokenLists == UNION {[1..n -> ProbeTokens] : n \in 0..MaxTokens}

RECURSIVE concat(_)
concat(tokens) ==
    IF tokens = <<>> THEN <<>> ELSE Head(tokens) \o concat(Tail(tokens))

\* "Om namaha", its native-script opening, and a target of one danda.
ProbeTargets ==
    {OmRoman \o <<" ">> \o namaha, OmGlyph \o <<" ">> \o namaha, <<"U+0964">>}

\* Words a probed input is joined from with single spaces.
MaxWords == 4

bhur == <<"b", "h", "u", "r">>

bhuvah == <<"b", "h", "u", "v", "a", "h">>

\* The first three words of MANTRAS.hinglish.
ShortTarget == join(<<OmRoman, bhur, bhuvah>>, " ")

\* Words of the target, a word with its last character wrong, a typed
\* beginning of a word, an alias, and the empty word (two spaces in a row,
\* a space at an end of the input).
ProbeWords ==
    {OmRoman, bhur, bhuvah, SubSeq(bhuvah, 1, 5) \o <<"n">>,
     SubSeq(bhur, 1, 2), <<"a", "u", "m">>, <<>>}

WordLists == UNION {[1..n -> ProbeWords] : n \in 0..MaxWords}

\* Characters that are inserted before the first character of a target.
InsertedChars == {"x", "o", "m", "b"}

\* The words with a one-space token between two of them.
RECURSIVE spaced(_)
spaced(words) ==
    IF Len(words) <= 1 THEN words
    ELSE <<Head(words), <<" ">> >> \o spaced(Tail(words))

(***************************************************************************)
(* The admin page: handleUpdateClick and updateUserProgress.               *)
(***************************************************************************)

Digits == <<"0", "1", "2", "3", "4", "5", "6", "7", "8", "9">>

isDigit(c) == \E d \in 1..Len(Digits) : Digits[d] = c

digitValue(c) == (CHOOSE d \in 1..Len(Digits) : Digits[d] = c) - 1

\* The value of a string of decimal digits.
RECURSIVE decimal(_)
decimal(digits) ==
    IF digits = <<>> THEN 0
    ELSE 10 * decimal(SubSeq(digits, 1, Len(digits) - 1))
            + digitValue(digits[Len(digits)])

\* parseInt(text) for decimal text: leading white space is skipped, one
\* sign is read, and the longest run of digits that follows is the value;
\* without a digit there the result is NaN.
parseInt(text) ==
    LET start  == IF \A i \in 1..Len(text) : text[i] \in WhiteSpace
                  THEN Len(text) + 1
                  ELSE CHOOSE i \in 1..Len(text) :
                          /\ text[i] \notin WhiteSpace
                          /\ \A j \in 1..(i - 1) : text[j] \in WhiteSpace
        signed == start <= Len(text) /\ text[start] \in {"-", "+"}
        from   == IF signed THEN start + 1 ELSE start
        stops  == {i \in from..Len(text) : ~isDigit(text[i])}
        to     == IF stops = {} THEN Len(text)
                  ELSE (CHOOSE i \in stops : \A j \in stops : i <= j) - 1
        value  == decimal(SubSeq(text, from, to))
    IN  IF to < from THEN [nan |-> TRUE, value |-> 0]
        ELSE [nan   |-> FALSE,
              value |-> IF signed /\ text[start] = "-" THEN 0 - value ELSE value]

\* parseInt(text) || 0: NaN and 0 are falsy.
parseIntOrZero(text) ==
    IF parseInt(text).nan THEN 0 ELSE parseInt(text).value

\* The update handleUpdateClick hands to updateUserProgress, which writes
\* it to the row of the user.
handleUpdateClick(values) ==
    [total_points       |-> parseIntOrZero(values.points),
     completed_sessions |-> parseIntOrZero(values.sessions)]

\* The columns of a row of the users table that the trainer or the admin
\* page writes (last_active apart).
tableRow(progress, featured) ==
    [totalPoints       |-> progress.totalPoints,
     completedSessions |-> progress.completedSessions,
     achievements      |-> progress.achievements,
     is_featured       |-> featured]

\* The update of the trainer: total_points, completed_sessions and
\* achievements of the row.
saveUserProgress(row, newProgress) ==
    [row EXCEPT !.totalPoints       = newProgress.totalPoints,
                !.completedSessions = newProgress.completedSessions,
                !.achievements      = newProgress.achievements]

\* The update of the admin page: total_points, completed_sessions and
\* is_featured of the row.
updateUserProgress(row, points, sessions, featured) ==
    [row EXCEPT !.totalPoints       = points,
                !.completedSessions = sessions,
                !.is_featured       = featured]

\* A faulty write: it is refused when the row is no longer the one the
\* writer read.
writeIfUnchanged(row, w) ==
    IF row # probe.row THEN row
    ELSE IF w.by = "admin"
    THEN updateUserProgress(row, handleUpdateClick(w.values).total_points,
                            handleUpdateClick(w.values).completed_sessions,
                            w.values.featured)
    ELSE saveUserProgress(row, w.progress)

\* One update arrives at the table: .eq('id', ...) or .eq('name', ...) is
\* its only condition.
write(row, w) ==
    IF w.by = "admin"
    THEN updateUserProgress(row, handleUpdateClick(w.values).total_points,
                            handleUpdateClick(w.values).completed_sessions,
                            w.values.featured)
    ELSE saveUserProgress(row, w.progress)

\* The row after the updates arrived in the order of the list.
RECURSIVE written(_, _)
written(row, writes) ==
    IF writes = <<>> THEN row
    ELSE written(write(row, Head(writes)), Tail(writes))

\* The record a writer has after editing its copy of the row it read.
copyOf(row, w) == write(row, w)

\* const allowedAdmins
allowedAdmins == <<"Kunj thakur", "Darkskull">>

\* A faulty checkAdminAccess: every stored user is admitted.
checkAdminAccessOfAnyUser(userData) == userData # None

\* checkAdminAccess returns true when 'mantra-user' holds a user whose name
\* allowedAdmins includes; otherwise it calls navigate('/') and returns
\* false.
checkAdminAccess(userData) ==
    /\ userData # None
    /\ includes(allowedAdmins, userData[1].name)

\* The admin page after its mount effect: with access fetchUsers and
\* fetchGlobalSettings are sent, without it the router has left the page.
\* loading starts true; fetched and writes record the requests sent.
mountAdmin(userData) ==
    [kind     |-> "admin",
     userData |-> userData,
     path     |-> IF checkAdminAccess(userData) THEN "/admin" ELSE "/",
     loading  |-> TRUE,
     fetching |-> checkAdminAccess(userData),
     fetched  |-> checkAdminAccess(userData),
     writes   |-> 0]

\* Writes the admin issues in one visit.
MaxAdminWrites == 1

\* Characters of the text an edit field holds.
MaxChars == 2

EditChars == {"-", "0", "7", "x", " "}

EditTexts == UNION {[1..n -> EditChars] : n \in 0..MaxChars}

(***************************************************************************)
(* The leaderboards: fetchLeaderboard (part_000) and updateLeaderboard     *)
(* (part_001).                                                             *)
(***************************************************************************)

\* Rows of the table the leaderboard reads.
MaxRows == 3

LeaderRows == [points : {0, 10, 20}, sessions : {0, 1}]

LeaderTables == UNION {[1..n -> LeaderRows] : n \in 0..MaxRows}

\* The orders in which n rows can be returned.
Orders(n) == {p \in [1..n -> 1..n] : \A i, j \in 1..n : p[i] = p[j] => i = j}

\* Row i of the table as a leaderboard entry; the name tells the rows apart.
entries(rows, p) ==
    [i \in 1..Len(rows) |->
        [name |-> p[i], points |-> rows[p[i]].points,
         sessions |-> rows[p[i]].sessions]]

\* .limit(10)
LeaderLimit == 10

limit(list, n) == SubSeq(list, 1, Min(n, Len(list)))

\* .order('total_points', { ascending: false }): rows of equal points are
\* returned in an order the database chooses.
fetchLeaderboard(rows) ==
    {limit(entries(rows, p), LeaderLimit) : p \in
        {q \in Orders(Len(rows)) :
            \A i \in 1..(Len(rows) - 1) :
                rows[q[i]].points >= rows[q[i + 1]].points}}

\* .order('total_points', { ascending: false })
\* .order('completed_sessions', { ascending: false })
updateLeaderboardRemote(rows) ==
    {entries(rows, p) : p \in
        {q \in Orders(Len(rows)) :
            \A i \in 1..(Len(rows) - 1) :
                \/ rows[q[i]].points > rows[q[i + 1]].points
                \/ /\ rows[q[i]].points = rows[q[i + 1]].points
                   /\ rows[q[i]].sessions >= rows[q[i + 1]].sessions}}

\* The comparator of the local-storage fallback: negative when a sorts
\* before b.
compareEntries(a, b) ==
    IF b.points # a.points THEN b.points - a.points
    ELSE b.sessions - a.sessions

\* Array.prototype.sort with compareEntries, which is stable.
updateLeaderboardLocal(rows) ==
    {entries(rows, p) : p \in
        {q \in Orders(Len(rows)) :
            \A i, j \in 1..Len(rows) :
                i < j => \/ compareEntries(rows[q[i]], rows[q[j]]) < 0
                         \/ /\ compareEntries(rows[q[i]], rows[q[j]]) = 0
                            /\ q[i] < q[j]}}

\* Points at, just below and just above every threshold.
ProbePoints ==
    {0} \cup UNION {{ACHIEVEMENTS[i].points - SessionAward,
                     ACHIEVEMENTS[i].points,
                     ACHIEVEMENTS[i].points + SessionAward} :
                        i \in 1..Len(ACHIEVEMENTS)}

\* The achievements of a record: titles are pushed in the order of
\* ACHIEVEMENTS and never removed one by one.
titlesUpTo(n) == [i \in 1..n |-> ACHIEVEMENTS[i].title]

\* The records a trainer writes after a completed session.
ClientRecords == {sessionComplete(r) : r \in SeedRecords}

\* The texts the admin enters in the points and the sessions field.
AdminPoints == {<<"0">>, <<"7", "0", "0">>}

AdminSessions == {<<"0">>, <<"7">>}

\* The updates that arrive at one row of the users table.
RowWrites ==
    {[by |-> "client", progress |-> r] : r \in ClientRecords} \cup
    {[by |-> "admin",
      values |-> [points |-> points, sessions |-> sessions,
                  featured |-> featured]] :
        points \in AdminPoints, sessions \in AdminSessions,
        featured \in BOOLEAN}

\* Writers of one row.
MaxWrites == 2

WriteLists == UNION {[1..n -> RowWrites] : n \in 1..MaxWrites}

\* The names 'mantra-user' holds when the admin page is opened.
VisitorNames == {"Kunj thakur", "Darkskull", "darkskull", "Kunj thakur ", UserName}

InitProbe ==
    /\ mounted("v1", EmptyStorage, None, FALSE)
    /\ \/ \E tokens \in TokenLists, target \in ProbeTargets, lang \in Languages :
             probe = [kind |-> "text", tokens |-> tokens,
                      input |-> concat(tokens), target |-> target, lang |-> lang]
       \/ \E words \in WordLists, lang \in Languages :
             probe = [kind |-> "text", tokens |-> spaced(words),
                      input |-> join(words, " "), target |-> ShortTarget,
                      lang |-> lang]
       \/ \E c \in InsertedChars, target \in ProbeTargets \cup {ShortTarget},
             lang \in Languages :
             probe = [kind |-> "text", tokens |-> << <<c>>, target >>,
                      input |-> <<c>> \o target, target |-> target,
                      lang |-> lang]
       \/ \E points \in ProbePoints, n \in 0..Len(ACHIEVEMENTS) :
             probe = [kind |-> "record", totalPoints |-> points,
                      achievements |-> titlesUpTo(n)]
       \/ \E points \in EditTexts, sessions \in EditTexts :
             probe = [kind |-> "edit", points |-> points, sessions |-> sessions]
       \/ \E rows \in LeaderTables : probe = [kind |-> "table", rows |-> rows]
       \/ \E userData \in {None} \cup {<<stored(name, r)>> :
                                           name \in VisitorNames,
                                           r \in SeedRecords} :
             probe = [kind |-> "visit", userData |-> userData]
       \/ \E r \in SeedRecords, writes \in WriteLists :
             probe = [kind |-> "row", row |-> tableRow(r, FALSE),
                      writes |-> writes]

unprobed ==
    <<build, language, currentInput, repetitionCount, userProgress,
      isCompleted, suggestion, showAuthPopup, userName, isLoggedIn, user,
      loading, authSession, timers, localStorage, remoteRow, requests, tally>>

\* checkAccuracy, with the values its tolerant match computes on the way:
\* inputChars.length, targetChars.length and matches.
callCheckAccuracy ==
    /\ probe.kind = "text"
    /\ LET targetChars == stripWhiteSpace(normalize(probe.target))
           inputChars  == stripWhiteSpace(normalize(
                              autoCorrect(probe.input, probe.target, probe.lang)))
       IN  probe' = [kind |-> "score", tokens |-> probe.tokens,
                     input |-> probe.input, target |-> probe.target,
                     lang |-> probe.lang,
                     inputChars |-> Len(inputChars),
                     targetChars |-> Len(targetChars),
                     matches |-> charMatches(targetChars, inputChars),
                     result |-> checkAccuracy(probe.input, probe.target,
                                              probe.lang)]
    /\ UNCHANGED unprobed

callGetTypingSuggestion ==
    /\ probe.kind = "text"
    /\ probe' = [kind |-> "suggested", tokens |-> probe.tokens,
                 input |-> probe.input, target |-> probe.target,
                 lang |-> probe.lang,
                 output |-> getTypingSuggestion(probe.input, probe.target)]
    /\ UNCHANGED unprobed

callAutoCorrect ==
    /\ probe.kind = "text"
    /\ probe' = [kind |-> "corrected", tokens |-> probe.tokens,
                 input |-> probe.input, target |-> probe.target,
                 lang |-> probe.lang,
                 output |-> autoCorrect(probe.input, probe.target, probe.lang)]
    /\ UNCHANGED unprobed

\* The check-and-award step applied once and applied to its own result.
callCheckAchievements ==
    /\ probe.kind = "record"
    /\ LET once == checkAchievements(probe.totalPoints, probe.achievements)
       IN  probe' = [kind |-> "award", totalPoints |-> probe.totalPoints,
                     achievements |-> probe.achievements, once |-> once,
                     twice |-> checkAchievements(probe.totalPoints, once)]
    /\ UNCHANGED unprobed

\* The admin clicks Update with the texts of the edit fields.
callHandleUpdateClick ==
    /\ probe.kind = "edit"
    /\ probe' = [kind |-> "updated", points |-> probe.points,
                 sessions |-> probe.sessions,
                 row |-> handleUpdateClick(probe)]
    /\ UNCHANGED unprobed

\* A leaderboard loads the table: source is the function that ran.
callFetchLeaderboard ==
    /\ probe.kind = "table"
    /\ \E board \in fetchLeaderboard(probe.rows) :
          probe' = [kind |-> "board", source |-> "fetchLeaderboard",
                    rows |-> probe.rows, board |-> board]
    /\ UNCHANGED unprobed

callUpdateLeaderboard ==
    /\ probe.kind = "table"
    /\ \/ \E board \in updateLeaderboardRemote(probe.rows) :
             probe' = [kind |-> "board", source |-> "updateLeaderboard",
                       rows |-> probe.rows, board |-> board]
       \/ \E board \in updateLeaderboardLocal(probe.rows) :
             probe' = [kind |-> "board", source |-> "updateLeaderboard",
                       rows |-> probe.rows, board |-> board]
    /\ UNCHANGED unprobed

\* The updates of the writers arrive at the row, then a visitor without
\* local progress logs in: handleAuthSuccess merges the row that was read
\* with the record in memory.
callWrite ==
    /\ probe.kind = "row"
    /\ LET after == written(probe.row, probe.writes)
       IN  probe' = [kind |-> "written", row |-> probe.row,
                     writes |-> probe.writes, stored |-> after,
                     loaded |-> mergedProgress(progressOf(after),
                                               userProgress)]
    /\ UNCHANGED unprobed

\* The admin page is opened: useEffect(() => { if (checkAdminAccess()) ... }).
callCheckAdminAccess ==
    /\ probe.kind = "visit"
    /\ probe' = mountAdmin(probe.userData)
    /\ UNCHANGED unprobed

\* fetchUsers is done, with the rows or with an error: finally
\* setLoading(false).
fetchUsersDone ==
    /\ probe.kind = "admin"
    /\ probe.fetching
    /\ probe' = [probe EXCEPT !.fetching = FALSE, !.loading = FALSE]
    /\ UNCHANGED unprobed

\* The admin clicks Update, Add or Delete: the controls are rendered when
\* loading is false; the write is followed by a fetch.
adminWrite ==
    /\ probe.kind = "admin"
    /\ probe.path = "/admin"
    /\ ~probe.loading
    /\ probe.writes < MaxAdminWrites
    /\ probe' = [probe EXCEPT !.writes = @ + 1, !.fetching = TRUE]
    /\ UNCHANGED unprobed

NextProbe ==
    \/ callCheckAccuracy
    \/ callAutoCorrect
    \/ callGetTypingSuggestion
    \/ callCheckAchievements
    \/ callHandleUpdateClick
    \/ callFetchLeaderboard
    \/ callUpdateLeaderboard
    \/ callWrite
    \/ callCheckAdminAccess
    \/ fetchUsersDone
    \/ adminWrite

SpecProbe == InitProbe /\ [][NextProbe]_vars

(***************************************************************************)
(* Properties of the scorer (SpecProbe).                                   *)
(***************************************************************************)

noDuplicates(list) ==
    \A i, j \in 1..Len(list) : list[i] = list[j] => i = j

\* C7: applying the check-and-award step twice to a record yields the
\* achievements of applying it once, and the step never adds a title that
\* is already present: the result keeps the record's achievements as its
\* prefix and holds no title twice.
C7_AwardIdempotent ==
    probe.kind = "award" =>
        /\ probe.twice = probe.once
        /\ Len(probe.once) >= Len(probe.achievements)
        /\ SubSeq(probe.once, 1, Len(probe.achievements)) = probe.achievements
        /\ noDuplicates(probe.once)

\* A record whose points reach a threshold it already holds the title of
\* and a threshold it does not.
C7_AwardedBesidePresent ==
    /\ probe.kind = "award"
    /\ probe.achievements # <<>>
    /\ probe.totalPoints >= ACHIEVEMENTS[1].points
    /\ Len(probe.once) > Len(probe.achievements)

\* C8 as stated: checkAccuracy("", target, variant) is 0 for every
\* non-empty target.
C8_EmptyInputScoresZero ==
    (probe.kind = "score" /\ probe.input = <<>> /\ probe.target # <<>>)
        => probe.result = 0

\* C8: checkAccuracy("", target, variant) is 0 for every target that is
\* not empty after dandas are stripped and the ends are trimmed.
C8_EmptyInputScoresZeroOnText ==
    (probe.kind = "score" /\ probe.input = <<>> /\ normalize(probe.target) # <<>>)
        => probe.result = 0

C8_EmptyInputScored ==
    /\ probe.kind = "score"
    /\ probe.input = <<>>
    /\ normalize(probe.target) # <<>>
    /\ probe.result = 0

\* The aliases the expression of a variant lists, and what replaces them.
listedAliases(lang) ==
    IF lang = "hindi"
    THEN {HindiAliases[i] : i \in 1..Len(HindiAliases)}
    ELSE {HinglishAliases[i] : i \in 1..Len(HinglishAliases)}

canonicalToken(lang) == IF lang = "hindi" THEN OmGlyph ELSE OmRoman

\* The length of the longest run of word characters s starts with.
wordRun(s) ==
    IF \A i \in 1..Len(s) : s[i] \in WordChars THEN Len(s)
    ELSE (CHOOSE i \in 1..Len(s) :
              /\ s[i] \notin WordChars
              /\ \A j \in 1..(i - 1) : s[j] \in WordChars) - 1

\* s with every maximal run of word characters that is a listed alias
\* replaced by the canonical token.
RECURSIVE rewriteRuns(_, _)
rewriteRuns(s, lang) ==
    IF s = <<>> THEN <<>>
    ELSE IF wordRun(s) = 0
    THEN <<Head(s)>> \o rewriteRuns(Tail(s), lang)
    ELSE LET run == SubSeq(s, 1, wordRun(s))
         IN  (IF run \in listedAliases(lang) THEN canonicalToken(lang) ELSE run)
                \o rewriteRuns(SubSeq(s, wordRun(s) + 1, Len(s)), lang)

\* C9 as stated: autoCorrect rewrites an occurrence of om/aum only when it
\* is a complete space-delimited token of the input; every other token is
\* left unchanged.
C9_WholeTokensOnly ==
    probe.kind = "corrected" =>
        LET before == split(probe.input, " ")
            after  == split(probe.output, " ")
        IN  /\ Len(after) = Len(before)
            /\ \A i \in 1..Len(before) :
                  after[i] # before[i] => toLowerCase(before[i]) \in OmSpellings

\* C9: autoCorrect rewrites exactly the occurrences of a listed alias that
\* are delimited, on each side, by an end of the input or by a character
\* other than a letter, a digit or the underscore; so "aum" before a comma
\* or a danda is rewritten and "aumx" is not.  "AUM namaha" scores 100
\* against "Om namaha" in the transliterated variant and "aumx namaha"
\* does not.
C9_WordRunsOnly ==
    /\ probe.kind = "corrected" =>
          probe.output = rewriteRuns(probe.input, probe.lang)
    /\ (/\ probe.kind = "score"
        /\ probe.lang = "hinglish"
        /\ probe.target = OmRoman \o <<" ">> \o namaha) =>
          /\ probe.tokens = << <<"A", "U", "M">>, <<" ">>, namaha >>
                => probe.result = 100
          /\ (/\ Len(probe.tokens) = MaxTokens
              /\ probe.tokens[1] = <<"a", "u", "m">>
              /\ probe.tokens[2] = <<"x">>) => probe.result < 100

\* An alias followed by a comma was rewritten.
C9_RewrittenBeforeComma ==
    /\ probe.kind = "corrected"
    /\ Len(probe.tokens) >= 2
    /\ probe.tokens[1] = <<"a", "u", "m">>
    /\ probe.tokens[2] = <<",">>
    /\ probe.output # probe.input

\* C10 as stated: for every letter-case spelling of the whole-word tokens
\* om and aum the input scores the same as with the variant's canonical
\* opening token typed in its place.
C10_CaseInsensitive ==
    (/\ probe.kind = "score"
     /\ probe.tokens # <<>>
     /\ probe.tokens[1] \in OmSpellings
     /\ Len(probe.tokens) >= 2 => probe.tokens[2] = <<" ">>)
        => probe.result =
              checkAccuracy(canonicalToken(probe.lang)
                                \o concat(Tail(probe.tokens)),
                            probe.target, probe.lang)

\* "Om bhur bhuvan": the target with its last character wrong.
lastCharWrong == SubSeq(ShortTarget, 1, Len(ShortTarget) - 1) \o <<"n">>

\* C11 as stated: with target "Om bhur bhuvah" the input "Om bhur bhuvah"
\* scores 100, and the input "Om bhur bhuvan" passes the 80% length test,
\* has the similarity (13 / 14) * 100 and scores 100.
C11_ThirteenOfFourteen ==
    (probe.kind = "score" /\ probe.target = ShortTarget) =>
        /\ probe.input = ShortTarget => probe.result = 100
        /\ probe.input = lastCharWrong =>
              /\ 10 * probe.inputChars >= 8 * probe.targetChars
              /\ probe.matches = 13
              /\ probe.targetChars = 14
              /\ probe.result = 100

\* C11: with target "Om bhur bhuvah" the input "Om bhur bhuvah" scores 100,
\* and the input "Om bhur bhuvan" passes the 80% length test, has the
\* similarity (11 / 12) * 100 (the characters are counted after the white
\* space is stripped), which is at least 85, and scores 100.
C11_ElevenOfTwelve ==
    (probe.kind = "score" /\ probe.target = ShortTarget) =>
        /\ probe.input = ShortTarget => probe.result = 100
        /\ probe.input = lastCharWrong =>
              /\ 10 * probe.inputChars >= 8 * probe.targetChars
              /\ probe.matches = 11
              /\ probe.targetChars = 12
              /\ 100 * probe.matches >= 85 * probe.targetChars
              /\ probe.result = 100

\* "Om bhur bhuvan" was scored against "Om bhur bhuvah" and accepted.
C11_LastCharWrongAccepted ==
    /\ probe.kind = "score"
    /\ probe.target = ShortTarget
    /\ probe.input = lastCharWrong
    /\ probe.result = 100

\* The probed call was decided by the exact or by the tolerant match.
exactOrTolerant ==
    \/ normalize(autoCorrect(probe.input, probe.target, probe.lang))
          = normalize(probe.target)
    \/ /\ 10 * probe.inputChars >= 8 * probe.targetChars
       /\ probe.targetChars > 0
       /\ 100 * probe.matches >= 85 * probe.targetChars

\* C12: when the input is neither an exact nor a tolerant match,
\* checkAccuracy returns floor(m / w * 100): w is the number of
\* space-separated words of the normalized target and m the number of
\* indices below min(w, input word count) at which the input word equals
\* the target word.  Target "Om bhur bhuvah" and input "Om" give 33.
C12_WordFallback ==
    (probe.kind = "score" /\ ~exactOrTolerant) =>
        LET targetWords == split(normalize(probe.target), " ")
            inputWords  == split(normalize(autoCorrect(probe.input, probe.target,
                                                       probe.lang)), " ")
            w == Len(targetWords)
            agree == {i \in 1..w : /\ i <= Len(inputWords)
                                   /\ inputWords[i] = targetWords[i]}
            m == Cardinality(agree)
        IN  /\ w * probe.result <= 100 * m
            /\ 100 * m < w * (probe.result + 1)
            /\ (probe.target = ShortTarget /\ probe.input = OmRoman)
                  => probe.result = 33

\* Two of the three target words were typed: the quotient is not whole.
C12_TwoOfThreeWords ==
    /\ probe.kind = "score"
    /\ ~exactOrTolerant
    /\ probe.target = ShortTarget
    /\ probe.input = OmRoman \o <<" ">> \o bhur
    /\ probe.result = 66

\* C13: checkAccuracy and getTypingSuggestion return a value for every
\* input (the empty input, inputs of fewer and of more words than the
\* target, inputs longer than the target); the result of checkAccuracy is
\* an integer in 0..100 and the result of getTypingSuggestion is the empty
\* string or a word of the target.
C13_Total ==
    /\ probe.kind = "text" =>
          /\ checkAccuracy(probe.input, probe.target, probe.lang) \in 0..100
          /\ Len(getTypingSuggestion(probe.input, probe.target)) >= 0
    /\ probe.kind = "score" => probe.result \in 0..100
    /\ probe.kind = "suggested" =>
          \/ probe.output = <<>>
          \/ \E i \in 1..Len(split(probe.target, " ")) :
                 probe.output = split(probe.target, " ")[i]

\* An input of more words than the target, every one a word of the
\* target, was scored.
C13_MoreWordsScored ==
    /\ probe.kind = "score"
    /\ probe.target = ShortTarget
    /\ probe.input = join(<<OmRoman, OmRoman, OmRoman, OmRoman>>, " ")
    /\ probe.result = 33

\* C14: getTypingSuggestion returns the target's first word when the
\* trimmed input is empty; otherwise, with k the index of the last
\* space-separated token of the trimmed input, it returns target word k
\* when the target has a word k, the token is not empty and the word begins
\* with the token, and the empty string in every other case.
C14_SuggestionRule ==
    probe.kind = "suggested" =>
        LET typed  == split(trim(probe.input), " ")
            words  == split(probe.target, " ")
            k      == Len(typed)
            begins == /\ k <= Len(words)
                      /\ typed[k] # <<>>
                      /\ Len(typed[k]) <= Len(words[k])
                      /\ \A i \in 1..Len(typed[k]) : words[k][i] = typed[k][i]
        IN  probe.output =
                IF trim(probe.input) = <<>> THEN words[1]
                ELSE IF begins THEN words[k]
                ELSE <<>>

\* The beginning of the second word was typed and the word was suggested.
C14_SecondWordSuggested ==
    /\ probe.kind = "suggested"
    /\ probe.target = ShortTarget
    /\ probe.input = OmRoman \o <<" ">> \o SubSeq(bhur, 1, 2)
    /\ probe.output = bhur

\* The probed input is the target with one character inserted at its
\* start.
insertedAtStart ==
    /\ Len(probe.tokens) = 2
    /\ probe.tokens[1] \in {<<c>> : c \in InsertedChars}
    /\ probe.tokens[2] = probe.target

\* C24: the tolerant match compares characters at equal indices only.  For
\* the target with one character inserted at its start the matches are the
\* indices at which the shifted input and the target hold the same
\* character; for target "Om bhur bhuvah" and input "xOm bhur bhuvah" there
\* is none, the input is not accepted and the word fallback scores 66.
C24_MatchesAtEqualIndices ==
    (probe.kind = "score" /\ insertedAtStart) =>
        LET typed  == stripWhiteSpace(normalize(
                          autoCorrect(probe.input, probe.target, probe.lang)))
            wanted == stripWhiteSpace(normalize(probe.target))
        IN  /\ probe.matches =
                  Cardinality({i \in 1..Len(wanted) :
                                  i <= Len(typed) /\ typed[i] = wanted[i]})
            /\ (probe.target = ShortTarget /\ probe.tokens[1] = <<"x">>) =>
                  /\ probe.matches = 0
                  /\ probe.result = 66

\* "xOm bhur bhuvah" was scored against "Om bhur bhuvah".
C24_ShiftedInputScored ==
    /\ probe.kind = "score"
    /\ insertedAtStart
    /\ probe.target = ShortTarget
    /\ probe.input = <<"x">> \o ShortTarget
    /\ probe.result = 66

\* The normalized, whitespace-stripped input begins with the complete
\* whitespace-stripped target.
beginsWithTarget ==
    startsWith(stripWhiteSpace(normalize(
                   autoCorrect(probe.input, probe.target, probe.lang))),
               stripWhiteSpace(normalize(probe.target)))

\* C25 as stated: every input whose normalized, whitespace-stripped form
\* begins with the complete whitespace-stripped target scores 100.
C25_TargetPrefixAccepted ==
    (probe.kind = "score" /\ beginsWithTarget) => probe.result = 100

\* C25: every input whose normalized, whitespace-stripped form begins with
\* the complete whitespace-stripped target scores 100, whatever follows
\* the target and wherever the spaces are, when the whitespace-stripped
\* target is not empty.
C25_TextTargetPrefixAccepted ==
    (/\ probe.kind = "score"
     /\ beginsWithTarget
     /\ stripWhiteSpace(normalize(probe.target)) # <<>>) => probe.result = 100

\* The target without its space and with a word after it was accepted.
C25_PaddedTargetAccepted ==
    /\ probe.kind = "score"
    /\ probe.tokens = <<OmRoman, namaha, namaha>>
    /\ probe.target = OmRoman \o <<" ">> \o namaha
    /\ probe.result = 100

\* C21 as stated: after two updates of one row, the stored record is
\* exactly the record of the writer whose update arrived last.
C21_LastWriteStored ==
    (probe.kind = "written" /\ Len(probe.writes) = 2) =>
        probe.stored = copyOf(probe.row, probe.writes[2])

\* The last update of the list that was sent by the writer "by", or none.
lastBy(writes, by) ==
    LET sent == {i \in 1..Len(writes) : writes[i].by = by}
    IN  IF sent = {} THEN <<>>
        ELSE <<writes[CHOOSE i \in sent : \A j \in sent : j <= i]>>

\* C21: after two or more updates of one row, every column holds the value of
\* the last update that contains it, whatever the other update wrote and
\* whether or not the row had changed since the writer read it: the
\* points and sessions are those of the update that arrived last, the
\* achievements those of the trainer's last update, is_featured that of
\* the admin page's last update, and a column no update contains keeps
\* its value.  Two updates of trainers leave exactly the last one's record.
C21_LastWriteWinsPerColumn ==
    probe.kind = "written" =>
        LET last   == probe.writes[Len(probe.writes)]
            client == lastBy(probe.writes, "client")
            admin  == lastBy(probe.writes, "admin")
        IN  /\ probe.stored.totalPoints =
                  IF last.by = "client" THEN last.progress.totalPoints
                  ELSE parseIntOrZero(last.values.points)
            /\ probe.stored.completedSessions =
                  IF last.by = "client" THEN last.progress.completedSessions
                  ELSE parseIntOrZero(last.values.sessions)
            /\ probe.stored.achievements =
                  IF client # <<>> THEN client[1].progress.achievements
                  ELSE probe.row.achievements
            /\ probe.stored.is_featured =
                  IF admin # <<>> THEN admin[1].values.featured
                  ELSE probe.row.is_featured
            /\ admin = <<>> => progressOf(probe.stored) = last.progress

\* The update of a trainer was followed by the update of the admin page:
\* the row holds the admin's points and the trainer's achievements.
C21_AdminAfterTrainer ==
    /\ probe.kind = "written"
    /\ Len(probe.writes) = 2
    /\ probe.writes[1].by = "client"
    /\ probe.writes[2].by = "admin"
    /\ probe.stored.totalPoints = 0
    /\ Len(probe.stored.achievements) = 2
    /\ probe.row.achievements # probe.stored.achievements

\* C30: the admin page has sent a fetch or a write, or has left its
\* loading state, only when 'mantra-user' holds a user named exactly
\* "Kunj thakur" or "Darkskull"; for every other content of the entry the
\* page navigated to '/', sent no fetch and no write and is still loading.
C30_AdminGate ==
    probe.kind = "admin" =>
        LET admitted == /\ probe.userData # None
                        /\ probe.userData[1].name \in {"Kunj thakur", "Darkskull"}
        IN  /\ (probe.fetched \/ probe.writes > 0 \/ ~probe.loading) => admitted
            /\ ~admitted => /\ probe.path = "/"
                            /\ ~probe.fetched
                            /\ ~probe.fetching
                            /\ probe.writes = 0
                            /\ probe.loading
            /\ admitted => probe.fetched /\ probe.path = "/admin"

\* An admin has issued a write after the user list was fetched.
C30_AdminWrote ==
    /\ probe.kind = "admin"
    /\ probe.userData # None
    /\ probe.userData[1].name = "Darkskull"
    /\ probe.writes = 1
    /\ ~probe.loading

\* C19: every user progress record, in memory and stored, has
\* totalPoints >= 0 and completedSessions >= 0, also after an admin
\* correction with arbitrary text in the points and sessions fields.
C19_RecordsNonNegative ==
    /\ userProgress.totalPoints >= 0
    /\ userProgress.completedSessions >= 0
    /\ probe.kind = "updated" =>
          /\ probe.row.total_points >= 0
          /\ probe.row.completed_sessions >= 0

\* C20: every leaderboard shows the records ordered by points descending
\* with ties broken by sessions descending: of two adjacent entries the
\* upper has more points, or the same points and at least as many sessions.
C20_LeaderboardOrdered ==
    probe.kind = "board" =>
        \A i \in 1..(Len(probe.board) - 1) :
            \/ probe.board[i].points > probe.board[i + 1].points
            \/ /\ probe.board[i].points = probe.board[i + 1].points
               /\ probe.board[i].sessions >= probe.board[i + 1].sessions

(***************************************************************************)
(* Properties of the trainer (Spec).                                       *)
(***************************************************************************)

targetWords == [lang \in Languages |-> split(MANTRAS[lang], " ")]

\* The first k words of the target, each followed by one space.
RECURSIVE chained(_, _)
chained(lang, k) ==
    IF k = 0 THEN <<>>
    ELSE chained(lang, k - 1) \o targetWords[lang][k] \o <<" ">>

\* C2: starting from the empty input with the first word suggested, the
\* k-th click on the suggestion leaves the input equal to the first k
\* words of the target, each followed by one space, and the suggestion
\* equal to word k + 1 of the target.
C2_SuggestionChaining ==
    [][\A k \in 0..(Len(targetWords[language]) - 1) :
          (/\ currentInput = chained(language, k)
           /\ suggestion = targetWords[language][k + 1]
           /\ handleSuggestionClick)
             => /\ currentInput' = chained(language, k + 1)
                /\ suggestion' =
                      IF k + 1 < Len(targetWords[language])
                      THEN targetWords[language][k + 2] ELSE <<>>]_vars

\* C3: with the counter at 0 when the page is opened or Reset Session is
\* clicked, after n accepted repetitions completedSessions has increased
\* by floor(n / 3) and totalPoints by 10 * floor(n / 3).
C3_SessionArithmetic ==
    /\ tally.sessions = tally.reps \div RepetitionsPerSession
    /\ tally.points = SessionAward * (tally.reps \div RepetitionsPerSession)

\* C4: in every reachable state the repetition counter is in 0..3.
C4_CounterInRange == repetitionCount \in 0..RepetitionsPerSession

\* A repetition was accepted that left the counter at c: its clearing
\* callback is pending.
acceptedBelow(c) ==
    /\ repetitionCount = c
    /\ tally.reps >= 1
    /\ \E i \in 1..Len(timers) : timers[i] = "clear"

\* The page was opened again or Reset Session was clicked: the session
\* starts over.
startedOver == tally.reps = 0

Idle == currentInput = <<>> /\ repetitionCount = 0 /\ ~isCompleted

\* C15: with the timers firing, after an accepted repetition that leaves
\* the counter at 1 or 2 the input is eventually empty with the counter at
\* that value; after the third accepted repetition the session-complete
\* flag is set with the award applied, and the state returns to Idle
\* (unless the session is started over in between).
C15_SessionLiveness ==
    /\ \A c \in 1..(RepetitionsPerSession - 1) :
          acceptedBelow(c) ~>
             ((currentInput = <<>> /\ repetitionCount = c) \/ startedOver)
    /\ (repetitionCount = RepetitionsPerSession /\ tally.reps >= 1) ~>
          ((isCompleted /\ tally.sessions >= 1) \/ startedOver)
    /\ isCompleted ~> Idle

\* The score of a text against the target of the variant.
scoreOf(text, lang) ==
    IF text \in Texts THEN accuracyOf[lang][text]
    ELSE checkAccuracy(text, MANTRAS[lang], lang)

\* C16: an input change of the first revision, or a Submit, whose score is
\* below 100 leaves the repetition counter, the session-complete flag and
\* the user progress record unchanged and schedules no timer.
C16_BelowHundredRejected ==
    [][(\/ /\ \E value \in TypedValues : handleInputChangeV1(value)
           /\ scoreOf(currentInput', language) < 100
        \/ /\ handleSubmitV2 \/ handleSubmitV3
           /\ scoreOf(currentInput, language) < 100)
          => UNCHANGED <<repetitionCount, isCompleted, userProgress, timers,
                         tally>>]_vars

\* A text of the other variant was typed in the first revision after a
\* repetition was accepted and cleared: it was scored below 100 and the
\* counter stayed at 1.
C16_RejectedAfterAccepted ==
    /\ build = "v1"
    /\ currentInput \in TypedValues
    /\ scoreOf(currentInput, language) < 100
    /\ repetitionCount = 1
    /\ tally.reps = 1
    /\ timers = <<>>

\* C17: the completion of a session sets the in-memory record to the
\* values it computed before the save is answered; a save that fails
\* changes neither the in-memory record nor the remote row, and the
\* session flow goes on: the session-complete flag is set and the reset
\* callback is scheduled, which sets the counter to 0.
C17_FailedSaveKeepsRecord ==
    [][/\ (/\ handleSubmitV2 \/ handleSubmitV3
           /\ repetitionCount = RepetitionsPerSession - 1
           /\ repetitionCount' = RepetitionsPerSession)
             => userProgress' = sessionComplete(userProgress)
       /\ \A i \in 1..MaxRequests :
             updateDone(i, FALSE)
                => /\ userProgress' = userProgress
                   /\ remoteRow' = remoteRow
                   /\ requests[i].resume
                         => /\ isCompleted'
                            /\ timers' = Append(timers, "reset")
       /\ \A i \in 1..MaxTimers :
             (fireTimer(i) /\ timers[i] = "reset")
                => /\ repetitionCount' = 0
                   /\ ~isCompleted'
                   /\ userProgress' = userProgress]_vars

\* The save of a completed session failed in revision v3: the row holds the
\* record of before the completion, the in-memory record the award, and
\* the session-complete flag is set.
C17_SaveFailedFlowContinued ==
    /\ build = "v3"
    /\ user # None
    /\ requests = <<>>
    /\ isCompleted
    /\ remoteRow # None
    /\ userProgress # remoteRow[1]
    /\ userProgress = sessionComplete(remoteRow[1])

\* C18: the persisted copy follows the in-memory record in every user
\* mode.  When the page is opened again with no save in flight, the record
\* that is loaded from local storage is the in-memory record of before
\* (revisions v1 and v2); when a save of revision v3 succeeds for the
\* signed-in user, the remote row holds the in-memory record.
C18_PersistedAfterMutation ==
    [][/\ (Reload /\ build \in {"v1", "v2"} /\ requests = <<>>)
             => userProgress' = userProgress
       /\ \A i \in 1..MaxRequests :
             (/\ updateDone(i, TRUE)
              /\ build = "v3"
              /\ user # None
              /\ remoteRow # None)
                => remoteRow' = <<userProgress'>>]_vars

\* C29: selecting the other language variant changes the language, and the
\* suggestion when the input is empty (to the first word of the new target);
\* the repetition counter, the input, the session-complete flag and the
\* user progress record keep their values.
C29_LanguageChangeKeepsSession ==
    [][(\E value \in Languages : setLanguage(value)) =>
          /\ language' # language
          /\ UNCHANGED <<repetitionCount, currentInput, isCompleted,
                         userProgress>>
          /\ suggestion' = IF currentInput = <<>>
                           THEN getTypingSuggestion(<<>>, MANTRAS[language'])
                           ELSE suggestion]_vars

\* The variant was changed after a repetition was accepted in Hindi and
\* before its input was cleared: the repetition is still counted.
C29_CountedAcrossVariants ==
    /\ build = "v2"
    /\ language = "hinglish"
    /\ currentInput = MANTRAS["hindi"]
    /\ suggestion = <<>>
    /\ repetitionCount = 1
    /\ timers = <<"clear">>

\* C22: the repetition counter is incremented only when the input was
\* cleared, by a callback or by Reset Session, after the previous increment
\* (or no repetition was accepted since the page was opened).
C22_ClearedBetweenIncrements ==
    [][repetitionCount' = repetitionCount + 1 => tally.cleared]_vars

\* The callback at position i was scheduled before the last click on Reset
\* Session: the repetitions accepted since then scheduled at most
\* tally.reps callbacks, at the end of the list (v1 and v2 schedule in the
\* accepting handler).
stale(i) ==
    /\ build \in {"v1", "v2"}
    /\ i <= Len(timers) - tally.reps

\* C23: a callback scheduled before the last click on Reset Session changes
\* neither the counter of the repetitions accepted after the click nor the
\* input typed after it.
C23_StaleTimerKeepsSession ==
    [][\A i \in 1..MaxTimers :
          (fireTimer(i) /\ stale(i)) =>
              /\ repetitionCount' = repetitionCount
              /\ currentInput' = currentInput]_vars

\* C27: the in-memory record has totalPoints = 10 * completedSessions in
\* every reachable state: the stored records were written by the trainer
\* from the zero record, no admin edits them, and session completions, the
\* sign-in merge and logout keep the equation.
C27_TenPointsPerSession ==
    userProgress.totalPoints = SessionAward * userProgress.completedSessions

\* A user who completed a session before signing in was signed in and the
\* merge took the 49 sessions of the remote row.
C27_MergedWithLongerRecord ==
    /\ build = "v2"
    /\ isLoggedIn
    /\ tally.completed = 1
    /\ userProgress.completedSessions = 49
    /\ localStorage.user # None
    /\ localStorage.user[1].completedSessions = 49

achievementsMatchPoints(record) ==
    \A i \in 1..Len(ACHIEVEMENTS) :
        includes(record.achievements, ACHIEVEMENTS[i].title)
            <=> record.totalPoints >= ACHIEVEMENTS[i].points

\* C26: the record in memory holds the title of an achievement exactly
\* when its totalPoints are at least the threshold of the achievement,
\* also when the record was loaded from a row the admin page has written.
C26_AchievementsMatchPoints ==
    /\ achievementsMatchPoints(userProgress)
    /\ probe.kind = "written" => achievementsMatchPoints(probe.loaded)

\* handleAuthSuccess left the record in memory with the maxima of the
\* points and of the sessions and with every title of the two records once.
mergeKeepsHigher ==
    [][handleAuthSuccess =>
          LET remote == IF remoteRow # None THEN remoteRow[1] ELSE ZeroProgress
              titles(record) == {record.achievements[i] :
                                    i \in 1..Len(record.achievements)}
          IN  /\ userProgress'.totalPoints
                    = Max(userProgress.totalPoints, remote.totalPoints)
              /\ userProgress'.completedSessions
                    = Max(userProgress.completedSessions,
                          remote.completedSessions)
              /\ noDuplicates(userProgress'.achievements)
              /\ titles(userProgress') = titles(userProgress) \cup titles(remote)]_vars

\* The record in memory of a signed-in user of revision v2 is higher than
\* the row in a field.
aheadOfRow ==
    /\ build = "v2"
    /\ isLoggedIn
    /\ remoteRow # None
    /\ localWasHigher(userProgress, remoteRow[1])

C5_OnlyTripleCompletion ==
    [][userProgress' # userProgress
          => /\ repetitionCount = RepetitionsPerSession - 1
             /\ repetitionCount' = RepetitionsPerSession]_vars

\* C5: the user progress record changes only in the step in which the
\* counter goes from 2 to 3, which applies the award of a session, in the
\* sign-in of revision v2 (the merge), in logout and sign-out (the zero
\* record) and when the stored record is loaded (the page is opened, the
\* load of revision v3 is done); typing, a rejected submit, the first and
\* the second accepted repetition, Reset Session, a language change, a
\* click on the suggestion and the timers leave it unchanged.
C5_ProgressMutations ==
    [][userProgress' # userProgress
          => \/ /\ repetitionCount = RepetitionsPerSession - 1
                /\ repetitionCount' = RepetitionsPerSession
                /\ userProgress' = sessionComplete(userProgress)
             \/ handleAuthSuccess
             \/ handleLogout
             \/ handleSignOut
             \/ \E i \in 1..MaxRequests, ok \in BOOLEAN, created \in BOOLEAN :
                   loadDone(i, ok, created)
             \/ Reload]_vars

\* The third repetition of a new user was accepted and awarded.
C5_TripleCompleted ==
    /\ repetitionCount = RepetitionsPerSession
    /\ tally.reps = RepetitionsPerSession
    /\ tally.sessions = 1
    /\ userProgress = sessionComplete(ZeroProgress)

\* An achievement the record holds is missing after the step.
losesAchievement ==
    \E i \in 1..Len(userProgress.achievements) :
        ~includes(userProgress'.achievements, userProgress.achievements[i])

\* C6 as stated: in no step the achievements lose a title they hold, and
\* they never hold a title twice.
C6_AchievementsOnlyGrow ==
    [][/\ ~losesAchievement
       /\ noDuplicates(userProgress'.achievements)]_vars

\* C6: the achievements never hold a title twice; a session completion
\* and the sign-in merge of revision v2 keep every title the record
\* holds; titles are lost only when the record is replaced: by the zero
\* record in logout and sign-out, and by the stored record when the page
\* is opened or the load of revision v3 is done.
C6_AchievementsKeptOrReplaced ==
    [][/\ noDuplicates(userProgress.achievements)
       /\ noDuplicates(userProgress'.achievements)
       /\ losesAchievement
             => \/ handleLogout
                \/ handleSignOut
                \/ \E i \in 1..MaxRequests, ok \in BOOLEAN, created \in BOOLEAN :
                      loadDone(i, ok, created)
                \/ Reload]_vars

\* A signed-in user of revision v2 who held the first title completed a
\* session that awarded the second.
C6_SecondTitleAwarded ==
    /\ build = "v2"
    /\ isLoggedIn
    /\ tally.completed = 1
    /\ userProgress.achievements = titlesUpTo(2)
====
